---- MODULE Spec2Model ----
(***************************************************************************)
(* Job execution and live-output controller of converter_gui.py            *)
(* (class ConverterGUI).                                                    *)
(*                                                                          *)
(* Two kinds of execution context exist:                                    *)
(*   - the control (Tk main-loop) thread, which runs run_conversion,        *)
(*     stop_conversion and every callback queued with root.after(0, ...);   *)
(*   - one worker thread per accepted Start, running run_conversion_thread. *)
(* Each child process (subprocess.Popen) is a third kind of actor that      *)
(* writes lines to its pipe and exits.                                      *)
(*                                                                          *)
(* A job is identified by the number of the Start that created it.  The     *)
(* Popen object of job j is identified with j as well; self.process holds   *)
(* 0 for None.                                                              *)
(*                                                                          *)
(* Handlers of the control thread are atomic with respect to the workers    *)
(* and to user input.  append_output ends with output_text.update(), which  *)
(* dispatches every callback pending in Tk's queue before it returns: that  *)
(* nested dispatch is modelled (operator update).  A modal messagebox is    *)
(* the last statement of the handler that shows it and is dismissed at      *)
(* once.                                                                    *)
(*                                                                          *)
(* run_conversion and stop_conversion are calls: they can be made in every  *)
(* state, whatever the state of the button bound to them, and a call that   *)
(* returns at its first check is a stuttering step.                         *)
(*                                                                          *)
(* A child writes all its lines when it starts, so that they can be read    *)
(* from its pipe until the end of the stream, which the reader meets once   *)
(* the child has exited.  Popen.returncode is None until a poll() or a      *)
(* wait() has reaped the child; which of the two a thread reads from a      *)
(* Popen that has exited and that no finished wait() has reaped is left     *)
(* open (operator returncodes).                                             *)
(*                                                                          *)
(* Popen(...) and the reading of the stream can raise (the interpreter is   *)
(* missing, the pipe yields bytes that do not decode): which workers may    *)
(* meet such an exception is part of the environment.                       *)
(***************************************************************************)
EXTENDS Integers, Sequences, FiniteSets, TLC

\* ------------------------------------------------------------------ bounds
MaxJobs == 3
MaxLines == 2
MaxCancels == 2
MaxWords == 2
\* What one behaviour spends on Starts, lines per child and Cancels
\* together; a Cancel, which is what lets jobs overlap, counts twice.
MaxTotal == 6
\* Starts and lines per child in the behaviours of the fair specification.
MaxLiveJobs == 2
MaxLiveLines == 1

Jobs == 1..MaxJobs

\* Exit codes a child that runs to completion may return.
ExitCodes == {0, 2}

\* Signal number sent by Popen.terminate(); a child killed by it has
\* returncode -SIGTERM.
SIGTERM == 15

\* Popen.returncode before the child has been reaped by poll()/wait()
\* (Python's None), as a number outside every exit code.
NoneRC == -100

VARIABLES
    is_running,     \* self.is_running
    process,        \* self.process: 0 (None) or the job whose Popen it is
    run_button,     \* state of self.run_button
    stop_button,    \* state of self.stop_button
    status_var,     \* self.status_var, as <<text>> or <<text, code>>
    output_text,    \* content of self.output_text, a sequence of entries
    messagebox,     \* the last dialog shown
    after,          \* Tk's FIFO of root.after(0, ...) callbacks
    thread,         \* thread[j]: where worker j is in run_conversion_thread
    handle,         \* handle[j]: Popen whose stdout / wait() worker j holds
    line,           \* line[j]: loop variable `line' of worker j (0: none)
    child,          \* child[j]: "none", "running", "exited"
    signalled,      \* signalled[j]: terminate() was called on child j
    consumed,       \* consumed[j]: lines read from the pipe of child j
    returncode,     \* returncode[j]: exit status of child j once exited
    delivered,      \* history: delivered[c], the lines of child c passed
                    \*   to append_output, in the order of the calls
    reports,        \* history: reports[j], the terminal reports of job j
    cancelled,      \* history: the jobs alive when a Cancel took effect
    raised,         \* history: the jobs whose worker entered its except
                    \*   clause
    limit,          \* the environment of this behaviour: how many Starts
                    \*   and Cancels the user makes, how many lines each
                    \*   child writes, the exit code of each child, the
                    \*   jobs whose Popen or stream may raise
    probe_line,     \* input of the classification check
    probe_tag,      \* its result
    probe_options,  \* the option widgets' values build_command reads
    probe_cmd       \* the list build_command returned (<<>>: not called)

gui_vars == <<is_running, run_button, stop_button, status_var, output_text,
              messagebox, after, delivered, reports>>
thread_vars == <<thread, handle, line>>
child_vars == <<child, signalled, consumed, returncode>>
probe_vars == <<probe_line, probe_tag, probe_options, probe_cmd>>
hist_vars == <<cancelled, raised, limit>>
vars == <<gui_vars, process, thread_vars, child_vars, hist_vars,
          probe_vars>>

\* ------------------------------------------------------ line classification
\* A line is a sequence of words; a substring test "w in line" is the
\* occurrence of the word w.  CHECK and CROSS stand for the check mark and
\* the ballot cross.
Words == {"CHECK", "CROSS", "Converted:", "converted:", "success", "SUCCESS",
          "Error", "error", "failed", "Failed", "Found:", "found:",
          "Detected", "detected", "a.mp4", "b.mp4"}

\* str.lower() on one word.
lower_word(w) ==
    CASE w = "Converted:" -> "converted:"
      [] w = "SUCCESS" -> "success"
      [] w = "Error" -> "error"
      [] w = "Failed" -> "failed"
      [] w = "Found:" -> "found:"
      [] w = "Detected" -> "detected"
      [] OTHER -> w

\* line.lower()
lower(l) == [i \in DOMAIN l |-> lower_word(l[i])]

\* "w in line"
contains(l, w) == \E i \in DOMAIN l : l[i] = w

\* tag_of with the error test placed before the success test.
tag_of_error_first(l) ==
    IF contains(l, "CROSS") \/ contains(l, "Error")
         \/ contains(lower(l), "failed")
    THEN "error"
    ELSE IF contains(l, "CHECK") \/ contains(l, "Converted:")
              \/ contains(lower(l), "success")
    THEN "success"
    ELSE IF contains(l, "Found:") \/ contains(l, "Detected")
    THEN "info"
    ELSE "plain"

\* The tag the worker's loop body computes for a line (None is "plain").
tag_of(l) ==
    IF contains(l, "CHECK") \/ contains(l, "Converted:")
         \/ contains(lower(l), "success")
    THEN "success"
    ELSE IF contains(l, "CROSS") \/ contains(l, "Error")
              \/ contains(lower(l), "failed")
    THEN "error"
    ELSE IF contains(l, "Found:") \/ contains(l, "Detected")
    THEN "info"
    ELSE "plain"

\* The k-th line every child writes.
script(k) ==
    CASE k = 1 -> <<"Found:", "a.mp4">>
      [] k = 2 -> <<"Converted:", "a.mp4">>
      [] k = 3 -> <<"Error", "b.mp4">>
      [] OTHER -> <<"a.mp4">>

\* ------------------------------------------------------- command line
\* str(self.convert_script)
convert_script == "convert.sh"

\* Values of the option widgets: the two directories, the codec, the
\* container format, the number of parallel jobs, the three check boxes.
Options ==
    [input_dir : {"/tmp/in", "/media/in"}, output_dir : {"", "/tmp/out"},
     audio_codec : {"lpcm", "aac"}, format : {"mov", "mp4"},
     jobs : {"1", "2"}, dry_run : BOOLEAN, keep_original : BOOLEAN,
     force : BOOLEAN]

\* The values the widgets are created with (no output directory chosen).
default_options ==
    [input_dir |-> "/tmp/in", output_dir |-> "", audio_codec |-> "lpcm",
     format |-> "mov", jobs |-> "1", dry_run |-> FALSE,
     keep_original |-> FALSE, force |-> FALSE]

\* build_command with '-o' added whether or not an output directory is set.
build_command_always_o(o) ==
    <<"bash", convert_script>>
      \o <<"-i", o.input_dir>>
      \o <<"-o", o.output_dir>>
      \o <<"-a", o.audio_codec>>
      \o <<"-f", o.format>>
      \o <<"-j", o.jobs>>
      \o (IF o.dry_run THEN <<"-n">> ELSE <<>>)
      \o (IF o.keep_original THEN <<"-k">> ELSE <<>>)
      \o (IF o.force THEN <<"-F">> ELSE <<>>)

\* build_command(): cmd, extended statement by statement.
build_command(o) ==
    <<"bash", convert_script>>
      \o <<"-i", o.input_dir>>
      \o (IF o.output_dir # "" THEN <<"-o", o.output_dir>> ELSE <<>>)
      \o <<"-a", o.audio_codec>>
      \o <<"-f", o.format>>
      \o <<"-j", o.jobs>>
      \o (IF o.dry_run THEN <<"-n">> ELSE <<>>)
      \o (IF o.keep_original THEN <<"-k">> ELSE <<>>)
      \o (IF o.force THEN <<"-F">> ELSE <<>>)

\* ------------------------------------------------------- control thread
\* The state the control thread's handlers read and write, as one record.
gui ==
    [is_running |-> is_running, run_button |-> run_button,
     stop_button |-> stop_button, status_var |-> status_var,
     output_text |-> output_text, messagebox |-> messagebox,
     after |-> after, delivered |-> delivered, reports |-> reports]

\* The record a handler ends with becomes the next state (v is g, evaluated
\* once).
commit(g) ==
    \E v \in {g} :
        /\ is_running' = v.is_running
        /\ run_button' = v.run_button
        /\ stop_button' = v.stop_button
        /\ status_var' = v.status_var
        /\ output_text' = v.output_text
        /\ messagebox' = v.messagebox
        /\ after' = v.after
        /\ delivered' = v.delivered
        /\ reports' = v.reports

\* An entry of output_text / an argument list of append_output.
entry(kind, job, src, n, tag, rc) ==
    [kind |-> kind, job |-> job, src |-> src, n |-> n, tag |-> tag, rc |-> rc]

\* A queued callback: append_output(line, tag) or conversion_finished(rc).
callback(fn, e) == [fn |-> fn, arg |-> e]

RECURSIVE update(_)
RECURSIVE append_output(_, _)
RECURSIVE conversion_finished(_, _)

\* One callback taken from Tk's queue and run.
call(cb, g) ==
    IF cb.fn = "append_output"
    THEN append_output(g, cb.arg)
    ELSE conversion_finished(g, cb.arg)

\* output_text.update(): dispatch pending callbacks until none is left
\* (v is g, evaluated once).
update(g) ==
    CHOOSE r \in {IF v.after = <<>>
                  THEN v
                  ELSE update(call(Head(v.after),
                                   [v EXCEPT !.after = Tail(@)])) :
                  v \in {g}} : TRUE

\* append_output(text, tag): insert at the end, then update().
append_output(g, e) ==
    update([g EXCEPT
        !.output_text = Append(@, e),
        !.delivered = IF e.kind = "line"
                      THEN [@ EXCEPT ![e.src] = Append(@, e.n)]
                      ELSE @,
        !.reports = IF e.kind \in {"summary", "stopped"}
                    THEN [@ EXCEPT ![e.job] = Append(@, <<e.kind, e.rc>>)]
                    ELSE @])

\* conversion_finished(return_code), e names the job whose worker queued it.
conversion_finished(g, e) ==
    LET g1 == [g EXCEPT !.is_running = FALSE,
                        !.run_button = "normal",
                        !.stop_button = "disabled"]
        g2 == append_output(g1, entry("rule", e.job, 0, 0, "plain", 0))
        g3 == append_output(g2, entry("summary", e.job, 0, 0,
                  IF e.rc = 0 THEN "success" ELSE "error", e.rc))
    IN  IF e.rc = 0
        THEN [g3 EXCEPT
                !.status_var = <<"Conversion completed successfully", 0>>,
                !.messagebox = <<"showinfo", "Success", 0>>]
        ELSE [g3 EXCEPT
                !.status_var = <<"Conversion failed (exit code)", e.rc>>,
                !.messagebox = <<"showerror", "Conversion failed", e.rc>>]

\* clear_output()
clear_output(g) == [g EXCEPT !.output_text = <<>>]

\* The number of the next job: workers are created in order.
started == {j \in Jobs : thread[j] # "none"}
next_job == Cardinality(started) + 1

\* The number of Cancel calls that took effect.
RECURSIVE stops(_)
stops(j) ==
    IF j = 0 THEN 0
    ELSE stops(j - 1) + Cardinality({i \in DOMAIN reports[j] :
                                        reports[j][i][1] = "stopped"})
cancels == stops(MaxJobs)

\* The workers that have not returned from run_conversion_thread.
alive == {j \in Jobs : thread[j] \notin {"none", "done"}}

\* start_job without the 'Executing:' line.
start_job_unannounced ==
    /\ next_job <= limit.jobs
    /\ LET j == next_job
           g1 == clear_output([gui EXCEPT
                    !.is_running = TRUE,
                    !.run_button = "disabled",
                    !.stop_button = "normal",
                    !.status_var = <<"Running conversion...", 0>>])
           g3 == append_output(g1, entry("rule", j, 0, 0, "plain", 0))
       IN  /\ commit(g3)
           /\ thread' = [thread EXCEPT ![j] = "popen"]
    /\ UNCHANGED <<process, handle, line, child_vars, hist_vars, probe_vars>>

\* The Start of a job: the part of run_conversion after its two checks.
start_job ==
    /\ next_job <= limit.jobs
    /\ LET j == next_job
           g1 == clear_output([gui EXCEPT
                    !.is_running = TRUE,
                    !.run_button = "disabled",
                    !.stop_button = "normal",
                    !.status_var = <<"Running conversion...", 0>>])
           g2 == append_output(g1, entry("exec", j, 0, 0, "info", 0))
           g3 == append_output(g2, entry("rule", j, 0, 0, "plain", 0))
       IN  /\ commit(g3)
           /\ thread' = [thread EXCEPT ![j] = "popen"]
    /\ UNCHANGED <<process, handle, line, child_vars, hist_vars, probe_vars>>

\* run_conversion without its first check, of self.is_running.
run_conversion_unguarded(valid) ==
    IF ~valid
    THEN /\ messagebox' =
                <<"showerror", "Input directory does not exist!", 0>>
         /\ UNCHANGED <<is_running, run_button, stop_button, status_var,
                        output_text, after, delivered, reports, process,
                        thread_vars, child_vars, hist_vars, probe_vars>>
    ELSE start_job

\* run_conversion without the return that follows the error dialog.
run_conversion_no_return(valid) ==
    IF is_running
    THEN UNCHANGED <<gui_vars, process, thread_vars, child_vars, hist_vars,
                     probe_vars>>
    ELSE /\ next_job <= limit.jobs
         /\ LET j == next_job
                g0 == IF valid THEN gui
                      ELSE [gui EXCEPT !.messagebox =
                              <<"showerror",
                                "Input directory does not exist!", 0>>]
                g1 == clear_output([g0 EXCEPT
                         !.is_running = TRUE,
                         !.run_button = "disabled",
                         !.stop_button = "normal",
                         !.status_var = <<"Running conversion...", 0>>])
                g2 == append_output(g1, entry("exec", j, 0, 0, "info", 0))
                g3 == append_output(g2, entry("rule", j, 0, 0, "plain", 0))
            IN  /\ commit(g3)
                /\ thread' = [thread EXCEPT ![j] = "popen"]
         /\ UNCHANGED <<process, handle, line, child_vars, hist_vars,
                        probe_vars>>

\* run_conversion(), the Start button; valid is os.path.isdir(input_dir).
run_conversion(valid) ==
    IF is_running
    THEN UNCHANGED <<gui_vars, process, thread_vars, child_vars, hist_vars,
                     probe_vars>>
    ELSE IF ~valid
    THEN /\ messagebox' =
                <<"showerror", "Input directory does not exist!", 0>>
         /\ UNCHANGED <<is_running, run_button, stop_button, status_var,
                        output_text, after, delivered, reports, process,
                        thread_vars, child_vars, hist_vars, probe_vars>>
    ELSE start_job

\* stop_conversion(), the Stop button.  poll() is None while the child runs.
stop_conversion ==
    IF process # 0 /\ child[process] = "running"
    THEN /\ cancels < limit.cancels
         /\ signalled' = [signalled EXCEPT ![process] = TRUE]
         /\ LET g1 == append_output(gui,
                          entry("stopped", process, 0, 0, "warning", 0))
            IN  commit([g1 EXCEPT
                          !.status_var = <<"Conversion stopped", 0>>,
                          !.is_running = FALSE,
                          !.run_button = "normal",
                          !.stop_button = "disabled"])
         /\ cancelled' = cancelled \cup alive \cup {process}
         /\ UNCHANGED <<raised, limit>>
         /\ UNCHANGED <<process, thread_vars, child, consumed,
                        returncode, probe_vars>>
    ELSE UNCHANGED <<gui_vars, process, thread_vars, child_vars, hist_vars,
                     probe_vars>>

\* The main loop runs the callback at the head of Tk's queue.
mainloop ==
    /\ after # <<>>
    /\ commit(call(Head(after), [gui EXCEPT !.after = Tail(@)]))
    /\ UNCHANGED <<process, thread_vars, child_vars, hist_vars, probe_vars>>

\* ------------------------------------------------------------- worker
\* Lines of child s that can be read from its pipe: a child writes its
\* lines when it starts.
available(s) == limit.lines

\* self.process = subprocess.Popen(cmd, ...)
thread_popen(j) ==
    /\ thread[j] = "popen"
    /\ process' = j
    /\ child' = [child EXCEPT ![j] = "running"]
    /\ thread' = [thread EXCEPT ![j] = "iter"]
    /\ UNCHANGED <<gui_vars, handle, line, signalled, consumed,
                   returncode, hist_vars, probe_vars>>

\* iter(self.process.stdout): the loop binds the stream of whatever
\* self.process holds now.
thread_iter(j) ==
    /\ thread[j] = "iter"
    /\ handle' = [handle EXCEPT ![j] = process]
    /\ thread' = [thread EXCEPT ![j] = "next"]
    /\ UNCHANGED <<gui_vars, process, line, child_vars, hist_vars,
                   probe_vars>>

\* next(iterator): the next line of the stream, or its end once the child
\* has exited and the pipe is empty.
thread_next(j) ==
    /\ thread[j] = "next"
    /\ LET s == handle[j]
       IN  IF consumed[s] < available(s)
           THEN /\ consumed' = [consumed EXCEPT ![s] = @ + 1]
                /\ line' = [line EXCEPT ![j] = consumed[s] + 1]
                /\ thread' = [thread EXCEPT ![j] = "post"]
           ELSE /\ child[s] = "exited"
                /\ thread' = [thread EXCEPT ![j] = "wait"]
                /\ UNCHANGED <<consumed, line>>
    /\ UNCHANGED <<gui_vars, process, handle, child, signalled,
                   returncode, hist_vars, probe_vars>>

\* thread_post calling self.append_output(line, tag) itself instead of
\* handing it to root.after.
thread_post_direct(j) ==
    /\ thread[j] = "post"
    /\ commit(append_output(gui, entry("line", j, handle[j], line[j],
                                       tag_of(script(line[j])), 0)))
    /\ line' = [line EXCEPT ![j] = 0]
    /\ thread' = [thread EXCEPT ![j] = "next"]
    /\ UNCHANGED <<process, handle, child_vars, hist_vars, probe_vars>>

\* The loop body: the break never happens (a line read from the stream is
\* never empty); the tag; root.after(0, self.append_output, line, tag).
thread_post(j) ==
    /\ thread[j] = "post"
    /\ after' = Append(after, callback("append_output",
                    entry("line", j, handle[j], line[j],
                          tag_of(script(line[j])), 0)))
    /\ line' = [line EXCEPT ![j] = 0]
    /\ thread' = [thread EXCEPT ![j] = "next"]
    /\ UNCHANGED <<is_running, run_button, stop_button, status_var,
                   output_text, messagebox, delivered, reports, process,
                   handle, child_vars, hist_vars, probe_vars>>

\* self.process.wait() is called: on whatever self.process holds now.
thread_wait(j) ==
    /\ thread[j] = "wait"
    /\ handle' = [handle EXCEPT ![j] = process]
    /\ thread' = [thread EXCEPT ![j] = "waiting"]
    /\ UNCHANGED <<gui_vars, process, line, child_vars, hist_vars,
                   probe_vars>>

\* wait() returns once that child has exited.
thread_waited(j) ==
    /\ thread[j] = "waiting"
    /\ child[handle[j]] = "exited"
    /\ thread' = [thread EXCEPT ![j] = "returncode"]
    /\ UNCHANGED <<gui_vars, process, handle, line, child_vars, hist_vars,
                   probe_vars>>

\* Popen p has been reaped by a wait() that returned.
waited_on(p) ==
    \E w \in Jobs \ raised :
        thread[w] \in {"returncode", "done"} /\ handle[w] = p

\* The values self.process.returncode can hold for Popen p: None while the
\* child runs; its exit status once a poll() or wait() has reaped it.
returncodes(p) ==
    IF child[p] = "running" THEN {NoneRC}
    ELSE IF waited_on(p) THEN {returncode[p]}
    ELSE {returncode[p], NoneRC}

\* thread_finish without its root.after: the worker returns and nothing is
\* reported.
thread_finish_silent(j) ==
    /\ thread[j] = "returncode"
    /\ thread' = [thread EXCEPT ![j] = "done"]
    /\ UNCHANGED <<gui_vars, process, handle, line, child_vars, hist_vars,
                   probe_vars>>

\* return_code = self.process.returncode;
\* self.root.after(0, self.conversion_finished, return_code)
thread_finish(j) ==
    /\ thread[j] = "returncode"
    /\ \E rc \in returncodes(process) :
          after' = Append(after, callback("conversion_finished",
                       entry("finished", j, 0, 0, "plain", rc)))
    /\ thread' = [thread EXCEPT ![j] = "done"]
    /\ UNCHANGED <<is_running, run_button, stop_button, status_var,
                   output_text, messagebox, delivered, reports, process,
                   handle, line, child_vars, hist_vars, probe_vars>>

\* An exception raised by Popen(...) or by the iteration of the stream is
\* caught by the except clause, whose first statement is
\* root.after(0, self.append_output, "\nError: ...\n", "error").
thread_raise(j) ==
    /\ thread[j] \in {"popen", "next"}
    /\ j \in limit.faults \ raised
    /\ raised' = raised \cup {j}
    /\ after' = Append(after, callback("append_output",
                    entry("error", j, 0, 0, "error", 0)))
    /\ thread' = [thread EXCEPT ![j] = "except"]
    /\ UNCHANGED <<is_running, run_button, stop_button, status_var,
                   output_text, messagebox, delivered, reports, process,
                   handle, line, child_vars, cancelled, limit, probe_vars>>

\* thread_except without its root.after: the worker ends and nothing is
\* reported.
thread_except_silent(j) ==
    /\ thread[j] = "except"
    /\ thread' = [thread EXCEPT ![j] = "done"]
    /\ UNCHANGED <<gui_vars, process, handle, line, child_vars, hist_vars,
                   probe_vars>>

\* The except clause's second statement:
\* root.after(0, self.conversion_finished, -1)
thread_except(j) ==
    /\ thread[j] = "except"
    /\ after' = Append(after, callback("conversion_finished",
                    entry("finished", j, 0, 0, "plain", -1)))
    /\ thread' = [thread EXCEPT ![j] = "done"]
    /\ UNCHANGED <<is_running, run_button, stop_button, status_var,
                   output_text, messagebox, delivered, reports, process,
                   handle, line, child_vars, hist_vars, probe_vars>>

run_conversion_thread(j) ==
    \/ thread_popen(j)
    \/ thread_iter(j)
    \/ thread_next(j)
    \/ thread_post(j)
    \/ thread_wait(j)
    \/ thread_waited(j)
    \/ thread_finish(j)
    \/ thread_raise(j)
    \/ thread_except(j)

\* -------------------------------------------------------------- child
\* The child exits: by itself with the exit code of its script, or killed
\* by SIGTERM.
child_exit(j) ==
    /\ child[j] = "running"
    /\ \/ returncode' = [returncode EXCEPT ![j] = limit.codes[j]]
       \/ /\ signalled[j]
          /\ returncode' = [returncode EXCEPT ![j] = -SIGTERM]
    /\ child' = [child EXCEPT ![j] = "exited"]
    /\ UNCHANGED <<gui_vars, process, thread_vars, signalled, consumed,
                   hist_vars, probe_vars>>

\* ------------------------------------------------------- specification
\* The exit codes of the children's scripts: consecutive jobs alternate
\* between two different codes.
Scripts ==
    {[j \in Jobs |-> IF j % 2 = 1 THEN c[1] ELSE c[2]] :
        c \in {d \in ExitCodes \X ExitCodes : d[1] # d[2]}}

\* The environments: as many Starts, lines, Cancels and faulty jobs as
\* MaxTotal allows.
Limits ==
    {l \in [jobs : 1..MaxJobs, lines : 0..MaxLines, cancels : 0..MaxCancels,
            codes : Scripts, faults : SUBSET Jobs] :
        /\ l.faults \subseteq 1..l.jobs
        /\ l.jobs + l.lines + 2 * l.cancels + Cardinality(l.faults)
              = MaxTotal}

\* The state after ConverterGUI.__init__ and create_widgets.
construct ==
    /\ is_running = FALSE
    /\ process = 0
    /\ run_button = "normal"
    /\ stop_button = "disabled"
    /\ status_var = <<"Ready", 0>>
    /\ output_text = <<>>
    /\ messagebox = <<"none", "", 0>>
    /\ after = <<>>
    /\ thread = [j \in Jobs |-> "none"]
    /\ handle = [j \in Jobs |-> 0]
    /\ line = [j \in Jobs |-> 0]
    /\ child = [j \in Jobs |-> "none"]
    /\ signalled = [j \in Jobs |-> FALSE]
    /\ consumed = [j \in Jobs |-> 0]
    /\ returncode = [j \in Jobs |-> NoneRC]
    /\ delivered = [j \in Jobs |-> <<>>]
    /\ reports = [j \in Jobs |-> <<>>]
    /\ cancelled = {}
    /\ raised = {}

Init ==
    /\ construct
    /\ limit \in Limits
    /\ probe_line = <<>>
    /\ probe_tag = "unset"
    /\ probe_options = default_options
    /\ probe_cmd = <<>>

Next ==
    \/ \E valid \in BOOLEAN : run_conversion(valid)
    \/ stop_conversion
    \/ mainloop
    \/ \E j \in Jobs : run_conversion_thread(j)
    \/ \E j \in Jobs : child_exit(j)

Spec == Init /\ [][Next]_vars

\* The scheduler runs every worker that can take a step, the main loop
\* runs the callbacks in Tk's queue, and every child exits in the end.
Fairness ==
    /\ WF_vars(mainloop)
    /\ \A j \in Jobs : WF_vars(run_conversion_thread(j))
    /\ \A j \in Jobs : WF_vars(child_exit(j))

\* The environments of the fair specification.
LiveLimits ==
    {l \in Limits : l.jobs <= MaxLiveJobs /\ l.lines <= MaxLiveLines}

InitFair ==
    /\ construct
    /\ limit \in LiveLimits
    /\ probe_line = <<>>
    /\ probe_tag = "unset"
    /\ probe_options = default_options
    /\ probe_cmd = <<>>

FairSpec == InitFair /\ [][Next]_vars /\ Fairness

\* ------------------------------------- specification of the classification
\* Every line of at most MaxWords words.
Lines == UNION {[1..n -> Words] : n \in 0..MaxWords}

\* The loop body's tag computation applied to the probe line.
classify ==
    /\ probe_tag = "unset"
    /\ probe_tag' = tag_of(probe_line)
    /\ UNCHANGED <<gui_vars, process, thread_vars, child_vars, hist_vars,
                   probe_line, probe_options, probe_cmd>>

InitClassify ==
    /\ construct
    /\ limit = CHOOSE l \in Limits : TRUE
    /\ probe_line \in Lines
    /\ probe_tag = "unset"
    /\ probe_options = default_options
    /\ probe_cmd = <<>>

SpecClassify == InitClassify /\ [][classify]_vars

\* ----------------------------------- specification of the command line
\* build_command applied to the probe options.
build ==
    /\ probe_cmd = <<>>
    /\ probe_cmd' = build_command(probe_options)
    /\ UNCHANGED <<gui_vars, process, thread_vars, child_vars, hist_vars,
                   probe_line, probe_tag, probe_options>>

InitBuild ==
    /\ construct
    /\ limit = CHOOSE l \in Limits : TRUE
    /\ probe_line = <<>>
    /\ probe_tag = "unset"
    /\ probe_options \in Options
    /\ probe_cmd = <<>>

SpecBuild == InitBuild /\ [][build]_vars

\* ------------------------------------------------------------- claims
\* The reports of kind k made for job j.
reports_of(j, k) == {i \in DOMAIN reports[j] : reports[j][i][1] = k}

\* Worker j has returned and every callback queued so far has run.
settled(j) == thread[j] = "done" /\ after = <<>>

\* The lines 1..n in order.
first_lines(n) == [i \in 1..n |-> i]

\* What the handlers' frame conditions speak of: the workers, the children,
\* the log, self.is_running, the buttons and the status text.
controller_vars ==
    <<thread, child, signalled, output_text, is_running, run_button,
      stop_button, status_var>>

\* C1: at most one worker thread is running run_conversion_thread and at
\* most one spawned child process is alive, in every reachable state.
C1_AtMostOneActiveJob ==
    /\ Cardinality(alive) <= 1
    /\ Cardinality({j \in Jobs : child[j] = "running"}) <= 1

\* C2: every started job gets its terminal outcome report exactly once:
\* never a second one, and one once its worker has returned and the
\* queued callbacks have run.
C2_ReportedExactlyOnce ==
    \A j \in Jobs :
        /\ Len(reports[j]) <= 1
        /\ settled(j) => Len(reports[j]) = 1

\* C3: once a job has been reported 'stopped' by Cancel, no 'failed' or
\* 'completed' report follows for the same job.
C3_StoppedStaysStopped ==
    \A j \in Jobs :
        \A i \in reports_of(j, "stopped") :
            \A k \in reports_of(j, "summary") : k < i

\* C4: a call of run_conversion while is_running is true changes nothing:
\* no worker, no child, no log entry, is_running, buttons and status as
\* they were.
C4_StartWhileRunningIsNoOp ==
    [][(is_running /\ \E valid \in BOOLEAN : run_conversion(valid))
          => UNCHANGED <<controller_vars, process, after, messagebox>>]_vars

\* A job is active, the user has a further Start to make, and makes it.
C4_Witness ==
    /\ is_running
    /\ alive # {}
    /\ next_job <= limit.jobs
    /\ ENABLED run_conversion(TRUE)

\* C5: a job is reported 'stopped' at most once, however often Cancel is
\* called on it.
C5_OneStoppedReport ==
    \A j \in Jobs : Cardinality(reports_of(j, "stopped")) <= 1

\* C6: the lines of a child reach append_output in the order the child
\* wrote them, each once, and all of them once the job's worker has
\* returned and the queued callbacks have run.
C6_LinesInOrderNoneDropped ==
    \A c \in Jobs :
        /\ \E n \in 0..limit.lines : delivered[c] = first_lines(n)
        /\ (settled(c) /\ child[c] = "exited")
              => delivered[c] = first_lines(limit.lines)

\* C7: a job on which Cancel never acted reports the exit code of its own
\* child: success for 0, failure with that code otherwise.
C7_ReportsOwnExitCode ==
    \A j \in Jobs \ cancelled :
        /\ reports_of(j, "stopped") = {}
        /\ \A i \in reports_of(j, "summary") :
              /\ child[j] = "exited"
              /\ reports[j][i][2] = returncode[j]

\* Case-sensitive and case-insensitive occurrence of an indicator.
has(l, w) == \E i \in DOMAIN l : l[i] = w
has_nocase(l, w) == \E i \in DOMAIN l : lower_word(l[i]) = lower_word(w)

\* C8 as claimed: error indicators first, then success, then info, every
\* indicator matched without regard to case.
C8_ErrorFirstNoCase ==
    probe_tag # "unset" =>
        LET l == probe_line
            err == has(l, "CROSS") \/ has_nocase(l, "Error")
                     \/ has_nocase(l, "failed")
            suc == has(l, "CHECK") \/ has_nocase(l, "Converted:")
                     \/ has_nocase(l, "success")
            inf == has_nocase(l, "Found:") \/ has_nocase(l, "Detected")
        IN  /\ err => probe_tag = "error"
            /\ (~err /\ suc) => probe_tag = "success"
            /\ (~err /\ ~suc /\ inf) => probe_tag = "info"
            /\ (~err /\ ~suc /\ ~inf) => probe_tag = "plain"

\* C8 as amended: success indicators first, then error, then info; only
\* 'success' and 'failed' are matched without regard to case.
C8_SuccessFirst ==
    probe_tag # "unset" =>
        LET l == probe_line
            suc == has(l, "CHECK") \/ has(l, "Converted:")
                     \/ has_nocase(l, "success")
            err == has(l, "CROSS") \/ has(l, "Error")
                     \/ has_nocase(l, "failed")
            inf == has(l, "Found:") \/ has(l, "Detected")
        IN  /\ suc => probe_tag = "success"
            /\ (~suc /\ err) => probe_tag = "error"
            /\ (~suc /\ ~err /\ inf) => probe_tag = "info"
            /\ (~suc /\ ~err /\ ~inf) => probe_tag = "plain"
            /\ l = <<"Found:", "a.mp4">> => probe_tag = "info"
            /\ l = <<"Converted:", "a.mp4">> => probe_tag = "success"
            /\ l = <<"Error", "b.mp4">> => probe_tag = "error"

\* A line with an error and a success indicator has been classified.
C8_Witness ==
    /\ probe_line = <<"Error", "success">>
    /\ probe_tag = "success"

\* The controller's states, read off the code's variables.
Idle == ~is_running
Starting == is_running /\ \E j \in Jobs : thread[j] = "popen"

\* C9: a call of stop_conversion while the controller is Idle or Starting
\* sends no termination request, emits no line and leaves is_running, the
\* buttons and the status as they were.
C9_CancelWhileIdleIsNoOp ==
    [][((Idle \/ Starting) /\ stop_conversion)
          => UNCHANGED <<signalled, output_text, is_running, run_button,
                         stop_button, status_var>>]_vars

\* The dialog run_conversion shows for an input directory that is none.
validation_error == <<"showerror", "Input directory does not exist!", 0>>

\* C10: a call of run_conversion with an input directory that is not an
\* existing directory, made while Idle, shows the validation error and
\* changes nothing else.
C10_InvalidStartOnlyReports ==
    [][(~is_running /\ run_conversion(FALSE))
          => /\ messagebox' = validation_error
             /\ UNCHANGED <<controller_vars, process, after>>]_vars

\* The validation error is on display, shown after a job has finished.
C10_Witness ==
    /\ messagebox = validation_error
    /\ ~is_running
    /\ reports_of(1, "summary") # {}

\* The error line of the except clause of worker j and the summary line of
\* conversion_finished(-1), as entries of the log.
error_line(j) == entry("error", j, 0, 0, "error", 0)
failure_summary(j) == entry("summary", j, 0, 0, "error", -1)

\* The positions of entry e in the log.
shown(e) == {i \in DOMAIN output_text : output_text[i] = e}

\* The controller is Idle with its controls re-enabled.
controls_enabled ==
    ~is_running /\ run_button = "normal" /\ stop_button = "disabled"

\* C11: a worker whose Popen or stream raised does not let the exception
\* escape; it queues one line tagged error and then conversion_finished(-1);
\* the job gets exactly one summary, a failure with code -1, shown after
\* the error line; and the step that reports it leaves the controller Idle
\* with the run button enabled and the stop button disabled.
C11_FailureReported ==
    /\ [](\A j \in raised :
            /\ thread[j] \in {"except", "done"}
            /\ \A i \in reports_of(j, "summary") : reports[j][i][2] = -1
            /\ Cardinality(reports_of(j, "summary")) <= 1
            /\ \A k \in DOMAIN after :
                  (after[k].fn = "conversion_finished" /\ after[k].arg.job = j)
                     => /\ after[k].arg.rc = -1
                        /\ \A i \in DOMAIN after :
                              after[i].arg = error_line(j) => i < k
            /\ settled(j) => Cardinality(reports_of(j, "summary")) = 1
            /\ (settled(j) /\ next_job = j + 1)
                  => /\ Cardinality(shown(error_line(j))) = 1
                     /\ Cardinality(shown(failure_summary(j))) = 1
                     /\ \A i \in shown(error_line(j)) :
                           \A k \in shown(failure_summary(j)) : i < k)
    /\ [][\A j \in raised :
              reports'[j] # reports[j] => controls_enabled']_vars

\* A worker whose Popen raised and a worker whose stream raised after a
\* line had been read have both been reported.
C11_Witness ==
    \E i, j \in raised :
        /\ child[i] = "none"
        /\ child[j] # "none" /\ delivered[j] # <<>>
        /\ settled(i) /\ settled(j)
        /\ reports[i] = << <<"summary", -1>> >>
        /\ reports[j] = << <<"summary", -1>> >>
        /\ controls_enabled

\* Job j is accepted by this step.
accepted(j) == thread[j] = "none" /\ thread'[j] # "none"

\* The user has been told a terminal outcome of job i: a summary or a
\* 'stopped' line was written for it, or a Cancel that took effect while
\* its worker was active wrote the 'stopped' line.
told(i) == reports[i] # <<>> \/ i \in cancelled

\* C12: when a Start is accepted, every earlier job has already had its
\* terminal outcome (success, stopped or failed with a code) reported.
C12_OutcomeBeforeNextStart ==
    [][\A j \in Jobs : accepted(j) => \A i \in 1..(j - 1) : told(i)]_vars

\* C13: every started job is eventually reported with the controller Idle
\* and its controls re-enabled (is_running false, run button enabled, stop
\* button disabled), whether its child exits with 0 or not, its Popen or
\* its stream raises, or it is cancelled; under weak fairness of the
\* workers, of the main loop and of the children's exit.
C13_EventuallyIdle ==
    \A j \in Jobs :
        (thread[j] # "none") ~> (reports[j] # <<>> /\ controls_enabled)

\* A cancelled job and a job whose worker raised have both been reported
\* and the controller is Idle.
C13_Witness ==
    \E i \in cancelled : \E j \in raised \ cancelled :
        /\ settled(i) /\ settled(j)
        /\ reports[i] # <<>> /\ reports[j] # <<>>
        /\ controls_enabled

\* What the presentation operations write: the log, the status text, the
\* buttons, the dialogs and self.is_running.
presentation_vars ==
    <<output_text, status_var, run_button, stop_button, messagebox,
      is_running, delivered, reports>>

\* C14: no step of a worker thread executes a presentation operation: it
\* leaves the log, the status, the buttons, the dialogs and is_running as
\* they were, and only adds callbacks at the end of Tk's queue.
C14_WorkerOnlyEnqueues ==
    [][(\E j \in Jobs : run_conversion_thread(j))
          => /\ UNCHANGED presentation_vars
             /\ Len(after') >= Len(after)
             /\ SubSeq(after', 1, Len(after)) = after]_vars

\* A worker has returned with its line and its conversion_finished
\* queued, and nothing of them is on display yet.
C14_Witness ==
    \E j \in Jobs :
        /\ thread[j] = "done"
        /\ reports[j] = <<>>
        /\ delivered[j] = <<>>
        /\ \E i, k \in DOMAIN after :
              /\ after[i].fn = "append_output" /\ after[i].arg.job = j
              /\ after[k].fn = "conversion_finished" /\ after[k].arg.job = j

\* The optional flags in their fixed order, and those an option record
\* selects.
optional_flags == <<"-n", "-k", "-F">>
selected(o, f) ==
    \/ f = "-n" /\ o.dry_run
    \/ f = "-k" /\ o.keep_original
    \/ f = "-F" /\ o.force

\* C15: the list build_command returns is the interpreter and the script
\* path, '-i' and the input directory, '-o' and the output directory if
\* and only if that is non-empty, '-a' codec, '-f' format, '-j' jobs, and
\* then exactly the optional flags whose option is true, in the order
\* -n, -k, -F.
C15_CommandLine ==
    probe_cmd # <<>> =>
        LET o == probe_options
            c == probe_cmd
            k == IF o.output_dir # "" THEN 2 ELSE 0
            rest == SubSeq(c, 11 + k, Len(c))
        IN  /\ Len(c) >= 10 + k
            /\ SubSeq(c, 1, 4) = <<"bash", convert_script, "-i", o.input_dir>>
            /\ (o.output_dir # "") <=> (\E i \in DOMAIN c : c[i] = "-o")
            /\ o.output_dir # "" => SubSeq(c, 5, 6) = <<"-o", o.output_dir>>
            /\ SubSeq(c, 5 + k, 10 + k) =
                  <<"-a", o.audio_codec, "-f", o.format, "-j", o.jobs>>
            /\ \A f \in {"-n", "-k", "-F"} :
                  selected(o, f) <=> (\E i \in DOMAIN rest : rest[i] = f)
            /\ \A i, j \in DOMAIN rest :
                  i < j => \E m, n \in 1..3 :
                      /\ m < n
                      /\ optional_flags[m] = rest[i]
                      /\ optional_flags[n] = rest[j]
            /\ (o = [default_options EXCEPT !.dry_run = TRUE,
                        !.audio_codec = "aac", !.format = "mp4",
                        !.jobs = "2"])
                  => c = <<"bash", convert_script, "-i", "/tmp/in", "-a",
                           "aac", "-f", "mp4", "-j", "2", "-n">>

\* The command line was built for all three flags and an output directory.
C15_Witness ==
    /\ probe_options.dry_run /\ probe_options.keep_original
    /\ probe_options.force /\ probe_options.output_dir = "/tmp/out"
    /\ Len(probe_cmd) = 15

\* The 'Executing: <argv>' line of job j as an entry of the log.
executing_line(j) == entry("exec", j, 0, 0, "info", 0)

\* C16: the step that accepts the Start of job j puts the 'Executing:' line
\* of j at the head of the cleared log while the child of j is not spawned
\* (neither before nor in that step), no line and no report of j exists
\* or is queued, and a child is spawned only for an accepted job.
C16_ExecutingLineFirst ==
    [][\A j \in Jobs :
          /\ accepted(j) =>
                /\ child[j] = "none" /\ child'[j] = "none"
                /\ reports[j] = <<>> /\ delivered[j] = <<>>
                /\ \A i \in DOMAIN output_text : output_text[i].job # j
                /\ \A i \in DOMAIN after : after[i].arg.job # j
                /\ output_text' # <<>>
                /\ Head(output_text') = executing_line(j)
                /\ reports'[j] = <<>> /\ delivered'[j] = <<>>
          /\ (child[j] = "none" /\ child'[j] # "none")
                => thread[j] # "none"]_vars

\* The child of the job whose 'Executing:' line heads the log runs and a
\* line of it is on display.
C16_Witness ==
    \E j \in Jobs :
        /\ output_text # <<>>
        /\ Head(output_text) = executing_line(j)
        /\ child[j] = "running"
        /\ delivered[j] # <<>>
        /\ j > 1

\* C17: while a job on which no Cancel acted has been started and its
\* exit is not reported yet, is_running is true and the run button is
\* disabled.
C17_RunningWhileJobActive ==
    \A j \in started \ cancelled :
        reports[j] = <<>> => (is_running /\ run_button = "disabled")

\* C18: a worker waits on the child it spawned itself, and the exit code
\* it hands to conversion_finished after wait() is that child's.
C18_WaitsOnOwnChild ==
    \A j \in Jobs :
        /\ thread[j] \in {"waiting", "returncode"} => handle[j] = j
        /\ j \notin raised =>
              \A k \in DOMAIN after :
                  (after[k].fn = "conversion_finished"
                      /\ after[k].arg.job = j)
                     => /\ child[j] = "exited"
                        /\ after[k].arg.rc = returncode[j]

\* C19: in the log, no output line of a job stands after that job's
\* terminal report (the summary of conversion_finished or the 'stopped by
\* user' line of stop_conversion).
C19_NoLineAfterReport ==
    \A i, k \in DOMAIN output_text :
        (/\ output_text[i].kind \in {"summary", "stopped"}
         /\ output_text[k].kind = "line"
         /\ output_text[k].job = output_text[i].job)
            => k < i

\* C20: the log holds nothing of an earlier job: every output line and
\* every summary in it belongs to the job whose 'Executing:' line heads
\* it, the job of the last accepted Start.
C20_NoMixingOfJobs ==
    output_text # <<>> =>
        /\ Head(output_text) = executing_line(next_job - 1)
        /\ \A i \in DOMAIN output_text :
              output_text[i].kind \in {"line", "summary"}
                 => output_text[i].job = next_job - 1

====
